---- MODULE Spec2Model ----
(***************************************************************************)
(* Multiline TRL calibration session (src/mTRL.py): the class mTRL with    *)
(* its constructor, the two calibration runs, apply_cal, error_coef,       *)
(* shift_plane and renorm_impedance, and the helper correct_sw.            *)
(*                                                                         *)
(* Numbers.  numpy's complex scalars are modelled exactly, as Gaussian     *)
(* rationals <<a, b, c>> = (a + j*b)/c with c > 0 in lowest terms.  A      *)
(* division by zero does not raise in numpy: it yields inf/nan components, *)
(* which no later +, -, *, / turns back into a finite number; all such     *)
(* values are the one value NaN.  Rounding is not modelled.                *)
(*                                                                         *)
(* Propagation constants live on the lattice (a*ln2 + j*b*pi/2)/c per      *)
(* metre, written <<a, b, c>> as well: .real, .imag, scaling by a real     *)
(* ratio and the product with a distance act on the coordinates, and exp   *)
(* is exact on the integer points (2^p * j^q).                             *)
(*                                                                         *)
(* Arrays are functions over 0..n-1, matrices functions of functions, so   *)
(* that x[3][3] is the source's x[3,3].                                    *)
(***************************************************************************)
EXTENDS Integers, Sequences, FiniteSets, TLC

\* ------------------------------------------------------------------ numbers

NaN  == <<0, 0, 0>>
Zero == <<0, 0, 1>>
One  == <<1, 0, 1>>

Abs(n) == IF n < 0 THEN -n ELSE n
Min(a, b) == IF a <= b THEN a ELSE b

RECURSIVE Gcd(_, _)
Gcd(a, b) == IF b = 0 THEN a ELSE Gcd(b, a % b)

\* a, b, c divided by their common factor s
Reduce(a, b, c, s) == <<a \div s, b \div s, c \div s>>

\* (a + j*b)/c in lowest terms with a positive denominator; c = 0 is non-finite
Norm(a, b, c) ==
    IF c = 0 THEN NaN
    ELSE Reduce(a, b, c, (IF c < 0 THEN -1 ELSE 1) * Gcd(Gcd(Abs(a), Abs(b)), Abs(c)))

IsNaN(x) == x[3] = 0

R(n, d) == Norm(n, 0, d)
Cx(a, b, c) == Norm(a, b, c)

IsReal(x) == x[2] = 0

\* Sums, products and quotients are exact.  Common factors are cancelled
\* before the integers are multiplied, and operands that are 0, 1 or real take
\* the short way to the same value.

\* x + y over the least common denominator, g the gcd of the denominators
AddOver(x, y, g) ==
    Norm(x[1] * (y[3] \div g) + y[1] * (x[3] \div g),
         x[2] * (y[3] \div g) + y[2] * (x[3] \div g),
         x[3] * (y[3] \div g))
CAdd(x, y) ==
    IF IsNaN(x) \/ IsNaN(y) THEN NaN
    ELSE IF x = Zero THEN y
    ELSE IF y = Zero THEN x
    ELSE AddOver(x, y, Gcd(x[3], y[3]))
CNeg(x)    == IF IsNaN(x) THEN NaN ELSE <<-x[1], -x[2], x[3]>>
CSub(x, y) == CAdd(x, CNeg(y))

\* (a + j*b)(c + j*d)/e
MulParts(a, b, c, d, e) ==
    IF b = 0 /\ d = 0 THEN <<a * c, 0, e>> ELSE Norm(a*c - b*d, a*d + b*c, e)
\* x * y, g1 common to x's numerator and y's denominator, g2 the other way round
MulOver(x, y, g1, g2) ==
    MulParts(x[1] \div g1, x[2] \div g1, y[1] \div g2, y[2] \div g2,
             (x[3] \div g2) * (y[3] \div g1))
CMul(x, y) ==
    IF IsNaN(x) \/ IsNaN(y) THEN NaN
    ELSE IF x = Zero \/ y = Zero THEN Zero
    ELSE IF x = One THEN y
    ELSE IF y = One THEN x
    ELSE MulOver(x, y, Gcd(Gcd(Abs(x[1]), Abs(x[2])), y[3]),
                       Gcd(Gcd(Abs(y[1]), Abs(y[2])), x[3]))

\* c/(h*(u + j*v)) = c*(u - j*v)/(h*(u^2 + v^2)), g common to c and h
InvParts(u, v, c, h, g) ==
    Norm(u * (c \div g), -v * (c \div g), (h \div g) * (u*u + v*v))
InvOver(y, h) == InvParts(y[1] \div h, y[2] \div h, y[3], h, Gcd(y[3], h))
\* 1 / y for a finite y # 0
CInv(y) == InvOver(y, Gcd(Abs(y[1]), Abs(y[2])))

\* x / y; y = 0 gives inf/nan components (numpy warns, does not raise)
CDiv(x, y) == IF IsNaN(x) \/ IsNaN(y) \/ y = Zero THEN NaN
              ELSE IF y = One THEN x
              ELSE CMul(x, CInv(y))

\* ----------------------------------------------------------------- matrices

Idx4 == 0..3
Idx2 == 0..1

\* (built with :> and @@ so that every entry is computed once, when the
\* matrix is built)
Vec4(e) == (0 :> e[0] @@ 1 :> e[1] @@ 2 :> e[2] @@ 3 :> e[3])
Mat4(e) == (0 :> Vec4([j \in Idx4 |-> e[0, j]]) @@ 1 :> Vec4([j \in Idx4 |-> e[1, j]]) @@
            2 :> Vec4([j \in Idx4 |-> e[2, j]]) @@ 3 :> Vec4([j \in Idx4 |-> e[3, j]]))
\* an array with every element computed
Eager(a) == a @@ a

\* a @ b for two 4x4 matrices
MatMul(a, b) ==
    Mat4([i \in Idx4, j \in Idx4 |->
        CAdd(CAdd(CMul(a[i][0], b[0][j]), CMul(a[i][1], b[1][j])),
             CAdd(CMul(a[i][2], b[2][j]), CMul(a[i][3], b[3][j])))])

\* scalar * matrix and matrix / scalar, elementwise
MatScale(k, a) == Mat4([i \in Idx4, j \in Idx4 |-> CMul(k, a[i][j])])
MatDiv(a, k)   == Mat4([i \in Idx4, j \in Idx4 |-> CDiv(a[i][j], k)])

\* np.diag([d0, d1, d2, d3])
Diag(d) == Mat4([i \in Idx4, j \in Idx4 |-> IF i = j THEN d[i] ELSE Zero])

\* np.kron of two 2x2 matrices
Kron(a, b) == Mat4([i \in Idx4, j \in Idx4 |-> CMul(a[i \div 2][j \div 2], b[i % 2][j % 2])])

Identity4 == Diag(Vec4([i \in Idx4 |-> One]))

MatFinite(a) == \A i \in Idx4 : \A j \in Idx4 : ~IsNaN(a[i][j])

\* ---------------------------------------------------------- linear algebra

\* the three indices of 0..3 other than i, in order
Skip(i) == [k \in 0..2 |-> IF k < i THEN k ELSE k + 1]

\* determinant of the 3x3 minor of a with rows r and columns c
Det3(a, r, c) ==
    CAdd(CSub(CMul(a[r[0]][c[0]], CSub(CMul(a[r[1]][c[1]], a[r[2]][c[2]]),
                                       CMul(a[r[1]][c[2]], a[r[2]][c[1]]))),
              CMul(a[r[0]][c[1]], CSub(CMul(a[r[1]][c[0]], a[r[2]][c[2]]),
                                       CMul(a[r[1]][c[2]], a[r[2]][c[0]])))),
         CMul(a[r[0]][c[2]], CSub(CMul(a[r[1]][c[0]], a[r[2]][c[1]]),
                                  CMul(a[r[1]][c[1]], a[r[2]][c[0]]))))

Signed(m, even) == IF even THEN m ELSE CNeg(m)

Cofactor(a, i, j) == Signed(Det3(a, Skip(i), Skip(j)), (i + j) % 2 = 0)

Det4(a) ==
    CAdd(CAdd(CMul(a[0][0], Cofactor(a, 0, 0)), CMul(a[0][1], Cofactor(a, 0, 1))),
         CAdd(CMul(a[0][2], Cofactor(a, 0, 2)), CMul(a[0][3], Cofactor(a, 0, 3))))

\* np.linalg.pinv(x) of a finite nonsingular x is its inverse, here adj(x)/det(x).
\* (A singular finite X is not reached: the Solver's X are nonsingular and both
\* transforms multiply by nonsingular matrices.)
AdjOver(x, det) == Mat4([i \in Idx4, j \in Idx4 |-> CDiv(Cofactor(x, j, i), det)])
Pinv(x) == AdjOver(x, Det4(x))

\* matrix @ vector for a 4x4 matrix and a 4-vector
MatVec(a, v) ==
    Vec4([i \in Idx4 |-> CAdd(CAdd(CMul(a[i][0], v[0]), CMul(a[i][1], v[1])),
                        CAdd(CMul(a[i][2], v[2]), CMul(a[i][3], v[3])))])

\* ------------------------------------------------------------ exponential

RECURSIVE Pow2(_)
Pow2(n) == IF n = 0 THEN 1 ELSE 2 * Pow2(n - 1)

\* j^q for an integer q
JPow(q) == LET r == q % 4
           IN  IF r = 0 THEN One
               ELSE IF r = 1 THEN <<0, 1, 1>>
               ELSE IF r = 2 THEN <<-1, 0, 1>>
               ELSE <<0, -1, 1>>

\* np.exp of the lattice point p*ln2 + j*q*pi/2 (p, q integers): 2^p * j^q
Exp(w) == CMul(IF w[1] >= 0 THEN R(Pow2(w[1]), 1) ELSE R(1, Pow2(-w[1])), JPow(w[2]))

\* a variant of GScale that ignores the sign of the distance
GScaleAbs(g, d) == Norm(g[1] * Abs(d), g[2] * Abs(d), g[3])

\* the product of a propagation constant with a real (integer) number of metres
GScale(g, d) == Norm(g[1] * d, g[2] * d, g[3])

\* ------------------------------------------------------- switch-term correction

Mat2(a, b, c, d) == (0 :> (0 :> a @@ 1 :> b) @@ 1 :> (0 :> c @@ 1 :> d))

\* S11, S12, S21, S22 of correct_sw over the common denominator den
correct_sw_over(S, g21, g12, den) ==
    Mat2(CDiv(CSub(S[0][0], CMul(CMul(S[0][1], S[1][0]), g21)), den),
         CDiv(CSub(S[0][1], CMul(CMul(S[0][0], S[0][1]), g12)), den),
         CDiv(CSub(S[1][0], CMul(CMul(S[1][1], S[1][0]), g21)), den),
         CDiv(CSub(S[1][1], CMul(CMul(S[0][1], S[1][0]), g12)), den))

\* one iteration of the loop of correct_sw: S, g21, g12 -> [[S11,S12],[S21,S22]]
correct_sw_at(S, g21, g12) ==
    correct_sw_over(S, g21, g12,
                    CSub(One, CMul(CMul(CMul(S[0][1], S[1][0]), g21), g12)))

\* ------------------------------------------------------------- transforms

\* a variant of Normalize that divides by the leading element
NormalizeLeading(KX_new) == [X |-> MatDiv(KX_new, KX_new[0][0]), K |-> KX_new[0][0]]

\* the last two statements of both loops: X_new.append(KX_new/KX_new[-1,-1]),
\* K_new.append(KX_new[-1,-1])
Normalize(KX_new) == [X |-> MatDiv(KX_new, KX_new[3][3]), K |-> KX_new[3][3]]

\* KX_new of shift_plane: k*x @ diag([z**2, 1, 1, 1/z**2]), z = exp(-g*d)
shift_diag(z) ==
    Diag(Vec4([i \in Idx4 |-> IF i = 0 THEN CMul(z, z)
                              ELSE IF i = 3 THEN CDiv(One, CMul(z, z))
                              ELSE One]))
shift_plane_KX(x, k, g, d) ==
    MatMul(MatScale(k, x), shift_diag(Exp(GScale(CNeg(g), d))))

\* one iteration of the loop of shift_plane: the pair (X_new entry, K_new entry)
shift_plane_at(x, k, g, d) == Normalize(shift_plane_KX(x, k, g, d))

\* a variant of ReflCoef without the subtraction
ReflCoefSum(Z_new, Z0) == CDiv(Z_new, CAdd(Z_new, Z0))

\* G = (Z_new-Z0)/(Z_new+Z0), elementwise
ReflCoef(Z_new, Z0) == CDiv(CSub(Z_new, Z0), CAdd(Z_new, Z0))

\* KX_new of renorm_impedance: k*x @ kron([[1,-g],[-g,1]], [[1,g],[g,1]])/(1-g**2)
renorm_impedance_KX(x, k, g) ==
    MatDiv(MatMul(MatScale(k, x),
                  Kron(Mat2(One, CNeg(g), CNeg(g), One), Mat2(One, g, g, One))),
           CSub(One, CMul(g, g)))

\* one iteration of the loop of renorm_impedance
renorm_impedance_at(x, k, g) == Normalize(renorm_impedance_KX(x, k, g))

\* ------------------------------------------------------------- de-embedding

\* M_ = [-s11*s22 + s12*s21, -s22, s11, 1]
M_(s) ==
    Vec4([i \in Idx4 |->
            IF i = 0 THEN CAdd(CNeg(CMul(s[0][0], s[1][1])), CMul(s[0][1], s[1][0]))
            ELSE IF i = 1 THEN CNeg(s[1][1])
            ELSE IF i = 2 THEN s[0][0]
            ELSE One])

VecDiv(v, k) == Vec4([i \in Idx4 |-> CDiv(v[i], k)])

\* [[T_[2], (T_[0]-T_[2]*T_[1])/s21_cal], [s21_cal, -T_[1]]], T_ already divided
\* by its last element
S_cal_entry(T_, s21_cal) ==
    Mat2(T_[2], CDiv(CSub(T_[0], CMul(T_[2], T_[1])), s21_cal),
         s21_cal, CNeg(T_[1]))

\* from T_ = xinv@M_ on: s21_cal = k*s21/T_[-1], T_ = T_/T_[-1], the entry
deembed(T_, k, s) ==
    S_cal_entry(VecDiv(T_, T_[3]), CDiv(CMul(k, s[1][0]), T_[3]))

\* one iteration of the loop of apply_cal: x, k, s -> the 2x2 S_cal entry
apply_cal_at(x, k, s) == deembed(MatVec(Pinv(x), M_(s)), k, s)

\* ------------------------------------------------------------------ bounds

\* number of points of the frequency sweep
MaxFreq == 2
\* shift_plane / renorm_impedance calls explored after a run
MaxTransforms == 2
\* calibration runs explored per session
MaxRuns == 1

\* --------------------------------------------------------------- constants

c0 == 299792458

NF    == MaxFreq
FIdx  == 0..(NF - 1)
\* lines[0].frequency.f: ascending, in steps of c0/2 Hz
f     == [i \in FIdx |-> (i + 1) * (c0 \div 2)]

\* np.array(list): a 1-indexed list as a 0-indexed array
ToArr(l) == [i \in 0..(Len(l) - 1) |-> l[i + 1]]
ALen(a)  == Cardinality(DOMAIN a)
EmptyArr == [i \in {} |-> Zero]

\* ---------------------------------------------------------------- networks

Mat1(a) == (0 :> (0 :> a))

\* rf.Network over the sweep f with the same matrix at every point
ConstNet(n, m) == [nports |-> n, s |-> [i \in FIdx |-> m]]

\* number of ports as apply_cal finds it: sqrt(len(NW.port_tuples)) as an int
NPorts(NW) == CHOOSE r \in 0..(NW.nports * NW.nports) : r * r = NW.nports * NW.nports

\* rf.two_port_reflect(NW): the 1-port on both ports, no transmission
two_port_reflect(NW) ==
    [nports |-> 2,
     s |-> [i \in DOMAIN NW.s |-> Mat2(NW.s[i][0][0], Zero, Zero, NW.s[i][0][0])]]

\* correct_sw(NW, gamma_f, gamma_r): zip stops at the shortest of the three
correct_sw(NW, gamma_f, gamma_r) ==
    LET n == Min(Min(ALen(NW.s), ALen(gamma_f.s)), ALen(gamma_r.s))
    IN  [nports |-> 2,
         s |-> [i \in 0..(n - 1) |->
                  correct_sw_at(NW.s[i], gamma_f.s[i][0][0], gamma_r.s[i][0][0])]]

Half    == R(1, 2)
Quarter == R(1, 4)
J       == Cx(0, 1, 1)

\* the measured standards handed to the constructor
ThruNet    == ConstNet(2, Mat2(Zero, One, One, Zero))
LineNet    == ConstNet(2, Mat2(Zero, CNeg(J), CNeg(J), Zero))
ReflectNet == ConstNet(2, Mat2(CNeg(One), Zero, Zero, CNeg(One)))
SwitchF    == ConstNet(1, Mat1(Half))
SwitchR    == ConstNet(1, Mat1(Quarter))
NoSwitch   == <<>>

\* constructor arguments: lengths matching the lines or not, with and without
\* switch terms, ereff_est the default 1+0j or 4+0j
CtorArgs ==
    { [lines |-> <<ThruNet, LineNet>>, line_lengths |-> <<0, 1>>,
       reflect |-> <<ReflectNet>>, ereff_est |-> R(1, 1), switch_term |-> NoSwitch],
      [lines |-> <<ThruNet, LineNet>>, line_lengths |-> <<0, 1>>,
       reflect |-> <<ReflectNet>>, ereff_est |-> R(4, 1),
       switch_term |-> <<SwitchF, SwitchR>>],
      [lines |-> <<ThruNet, LineNet>>, line_lengths |-> <<0>>,
       reflect |-> <<ReflectNet>>, ereff_est |-> R(1, 1), switch_term |-> NoSwitch] }

\* networks handed to apply_cal: 2-port, 2-port without transmission from
\* port 1 to port 2 (S21 = 0), 1-port, 3-port
NW2  == ConstNet(2, Mat2(Half, Quarter, One, CNeg(Half)))
NW2z == ConstNet(2, Mat2(Half, Quarter, Zero, CNeg(Half)))
NW1  == ConstNet(1, Mat1(Half))
NW3  == ConstNet(3, [i \in 0..2 |-> [j \in 0..2 |->
                        IF i <= 1 /\ j <= 1 THEN NW2.s[0][i][j] ELSE Quarter]])
CalArgs == { [NW |-> NW2, left |-> TRUE], [NW |-> NW2z, left |-> TRUE],
             [NW |-> NW1, left |-> TRUE], [NW |-> NW1, left |-> FALSE],
             [NW |-> NW3, left |-> TRUE] }

\* distances handed to shift_plane (metres)
Dists == {-1, 1}

\* impedances handed to renorm_impedance: scalars, or one value per frequency
Scalar(z) == [kind |-> "scalar", v |-> z]
Array(a)  == [kind |-> "array", v |-> a]
ZSweep    == [i \in FIdx |-> R(50 * (i + 1), 1)]
ZArgs == { [Z_new |-> Scalar(R(50, 1)),  Z0 |-> Scalar(R(50, 1))],
           [Z_new |-> Scalar(R(150, 1)), Z0 |-> Scalar(R(50, 1))],
           [Z_new |-> Array(ZSweep),     Z0 |-> Array(ZSweep)] }

\* ------------------------------------------------------------------ Solver

\* What MultiCal.mTRL / TUGmTRL.mTRL can return for one frequency: a normalized
\* nonsingular error box X (X[3,3] = 1), a nonzero K, gamma on the lattice, and
\* for TUGmTRL the updated permittivity estimate and abs_lambda.
XB == Mat4([i \in Idx4, j \in Idx4 |->
         IF i = 0 THEN (IF j = 0 THEN R(2, 1) ELSE Zero)
         ELSE IF i = 1 THEN (IF j = 1 THEN One ELSE IF j = 3 THEN Half ELSE Zero)
         ELSE IF i = 2 THEN (IF j = 2 THEN One ELSE IF j = 3 THEN Half ELSE Zero)
         ELSE (IF j = 2 THEN Half ELSE IF j = 3 THEN One ELSE Zero)])

SolverOutputs ==
    { [X |-> Identity4, K |-> One, gamma |-> Cx(0, 1, 1),
       ereff |-> R(1, 1), abs_lambda |-> 1],
      [X |-> XB, K |-> Cx(0, 2, 1), gamma |-> Cx(1, 1, 1),
       ereff |-> R(4, 1), abs_lambda |-> 2] }

\* exceptions: their type and the frequency index they name, if any
NoIndex == -1
NoError     == [type |-> "none", index |-> NoIndex]
Raised(t)   == [type |-> t, index |-> NoIndex]

\* The exceptions a Solver can raise at loop index inx.  MultiCal.mTRL is given
\* neither the index nor the frequency; TUGmTRL.mTRL is given the frequency ff,
\* so its exception may or may not tell where it happened.
SolverErrors(run, inx) ==
    { [type |-> "NumericalFailure", index |-> i] :
        i \in IF run = "run_tug" THEN {NoIndex, inx} ELSE {NoIndex} }

\* -------------------------------------------------------------------- runs

ISqrt(n) == CHOOSE r \in 0..n : r * r = n

\* gamma_0 = 2*pi*f[0]/c0*sqrt(-ereff_0), then abs of both parts, for a real
\* ereff_0 = p^2: sqrt(-p^2-0j) = -p*j, so gamma_0 = j*(pi/2)*(4*f[0]*p/c0)
InitialGamma(ereff_0, f0) ==
    LET root == Cx(0, -ISqrt(ereff_0[1] \div ereff_0[3]), 1)
        g    == Norm(0, 4 * f0 * root[2], c0 * root[3])
    IN  Norm(Abs(g[1]), Abs(g[2]), g[3])

\* a variant of Extrapolate that scales the real part too
ExtrapolateBoth(gamma, fnext, ff) ==
    Norm(gamma[1] * fnext, gamma[2] * fnext, gamma[3] * ff)

\* gamma.real + 1j*gamma.imag*f[inx+1]/ff
Extrapolate(gamma, fnext, ff) ==
    Norm(gamma[1] * ff, gamma[2] * fnext, gamma[3] * ff)

\* error_coef: the six terms, each an array over the frequencies of X
CoefNames == {"ERF", "EDF", "ESF", "ERR", "EDR", "ESR"}
error_coef(X) ==
    [n \in CoefNames |-> [i \in DOMAIN X |->
        IF n = "ERF" THEN CSub(X[i][2][2], CMul(X[i][2][3], X[i][3][2]))
        ELSE IF n = "EDF" THEN X[i][2][3]
        ELSE IF n = "ESF" THEN CNeg(X[i][3][2])
        ELSE IF n = "ERR" THEN CSub(X[i][1][1], CMul(X[i][3][1], X[i][1][3]))
        ELSE IF n = "EDR" THEN CNeg(X[i][1][3])
        ELSE X[i][3][1]]]

\* ------------------------------------------------------------------- state

VARIABLES
    self,    \* the mTRL object: its attributes
    pc,      \* "new" (not constructed), "idle" (between calls), "run_multical",
             \* "run_tug" (inside the loop of a run), "returned" (a call has
             \* just ended and ret holds how)
    loc,     \* the locals of the run in progress
    calls,   \* the Solver invocations of the latest run: index, guess, result
    ret,     \* the call in progress or just ended: name, argument, result, exception
    hist,    \* the transforms since the latest run, newest first, with the
             \* X, K and gamma each of them started from (at most two are kept)
    nXf,     \* number of transforms since the latest run
    runs     \* number of runs started

vars == <<self, pc, loc, calls, ret, hist, nXf, runs>>

NoLoc == [inx |-> 0, guess |-> Zero, X_full |-> <<>>, K_full |-> <<>>,
          gamma_full |-> <<>>, abs_lambda_full |-> <<>>]

\* at: the loop index a run was at when an exception left it (NoIndex otherwise)
Ret(op, arg, out, err) ==
    [op |-> op, arg |-> arg, out |-> out, err |-> err, at |-> NoIndex]
NoRet == Ret("none", <<>>, <<>>, NoError)

NoSelf == [lines |-> <<>>, line_lengths |-> <<>>, reflect |-> <<>>,
           reflect_est |-> <<>>, reflect_offset |-> <<>>, ereff_est |-> Zero,
           switch_term |-> NoSwitch, attrs |-> {},
           X |-> EmptyArr, K |-> EmptyArr, gamma |-> EmptyArr,
           abs_lambda |-> EmptyArr, coefs |-> [n \in CoefNames |-> EmptyArr]]

Init ==
    /\ self = NoSelf
    /\ pc = "new"
    /\ loc = NoLoc
    /\ calls = <<>>
    /\ ret = NoRet
    /\ hist = <<>>
    /\ nXf = 0
    /\ runs = 0

\* mTRL.__init__: stores its arguments; with switch terms the lines and the
\* reflects are corrected.  No argument is validated.
ctor(a) ==
    LET sw == a.switch_term
        corr(l) == [i \in 1..Len(l) |-> correct_sw(l[i], sw[1], sw[2])]
    IN  [NoSelf EXCEPT
           !.lines = IF sw # NoSwitch THEN corr(a.lines) ELSE a.lines,
           !.line_lengths = a.line_lengths,
           !.reflect = IF sw # NoSwitch THEN corr(a.reflect) ELSE a.reflect,
           !.reflect_est = <<CNeg(One)>>,
           !.reflect_offset = <<0>>,
           !.ereff_est = a.ereff_est,
           !.switch_term = sw,
           !.attrs = {"lines", "line_lengths", "reflect", "reflect_est",
                      "reflect_offset", "ereff_est", "switch_term"}]

Construct ==
    /\ pc = "new"
    /\ \E a \in CtorArgs :
         /\ self' = ctor(a)
         /\ ret' = Ret("__init__", a, <<>>, NoError)
    /\ pc' = "returned"
    /\ UNCHANGED <<loc, calls, hist, nXf, runs>>

\* the caller takes the result of the call that ended
Return ==
    /\ pc = "returned"
    /\ pc' = "idle"
    /\ ret' = NoRet
    /\ UNCHANGED <<self, loc, calls, hist, nXf, runs>>

Has(o, a) == a \in o.attrs

\* run_multical / run_tug up to the loop: the locals, the first guess
run_multical_begin(o) ==
    [NoLoc EXCEPT !.guess = InitialGamma(o.ereff_est, f[0])]
run_tug_begin(o) ==
    [NoLoc EXCEPT !.guess = o.ereff_est]

RunMulticalStart ==
    /\ pc = "idle"
    /\ runs < MaxRuns
    /\ loc' = run_multical_begin(self)
    /\ pc' = "run_multical"
    /\ calls' = <<>>
    /\ ret' = Ret("run_multical", <<>>, <<>>, NoError)
    /\ runs' = runs + 1
    /\ UNCHANGED <<self, hist, nXf>>

RunTugStart ==
    /\ pc = "idle"
    /\ runs < MaxRuns
    /\ loc' = run_tug_begin(self)
    /\ pc' = "run_tug"
    /\ calls' = <<>>
    /\ ret' = Ret("run_tug", <<>>, <<>>, NoError)
    /\ runs' = runs + 1
    /\ UNCHANGED <<self, hist, nXf>>

\* what a Solver invocation is given: the index of the slice of the
\* measurements, the guess, and the lists as the object holds them
Call(l, o, r) == [inx |-> l.inx, guess |-> l.guess,
                  nlines |-> Len(o.lines), nlengths |-> Len(o.line_lengths),
                  result |-> r]

\* one iteration of the loop of run_multical, the Solver returning r
run_multical_iter(l, r) ==
    [l EXCEPT
       !.guess = IF l.inx + 1 < NF
                 THEN Extrapolate(r.gamma, f[l.inx + 1], f[l.inx]) ELSE @,
       !.X_full = Append(@, r.X),
       !.K_full = Append(@, r.K),
       !.gamma_full = Append(@, r.gamma),
       !.inx = @ + 1]

\* one iteration of the loop of run_tug, the Solver returning r
run_tug_iter(l, r) ==
    [l EXCEPT
       !.guess = r.ereff,
       !.X_full = Append(@, r.X),
       !.K_full = Append(@, r.K),
       !.gamma_full = Append(@, r.gamma),
       !.abs_lambda_full = Append(@, r.abs_lambda),
       !.inx = @ + 1]

MulticalStep ==
    /\ pc = "run_multical"
    /\ loc.inx < NF
    /\ \E r \in SolverOutputs :
         /\ calls' = Append(calls, Call(loc, self, r))
         /\ loc' = run_multical_iter(loc, r)
    /\ UNCHANGED <<self, pc, ret, hist, nXf, runs>>

TugStep ==
    /\ pc = "run_tug"
    /\ loc.inx < NF
    /\ \E r \in SolverOutputs :
         /\ calls' = Append(calls, Call(loc, self, r))
         /\ loc' = run_tug_iter(loc, r)
    /\ UNCHANGED <<self, pc, ret, hist, nXf, runs>>

\* the Solver raises: neither run catches it, the exception leaves the run as
\* the Solver raised it and the object keeps the attributes it had
SolverRaises ==
    /\ pc \in {"run_multical", "run_tug"}
    /\ loc.inx < NF
    /\ \E e \in SolverErrors(pc, loc.inx) :
         /\ calls' = Append(calls, Call(loc, self, e))
         /\ ret' = [ret EXCEPT !.err = e, !.at = loc.inx]
    /\ pc' = "returned"
    /\ loc' = NoLoc
    /\ UNCHANGED <<self, hist, nXf, runs>>

\* the end of run_multical: the arrays are stored, then error_coef()
run_multical_end(o, l) ==
    [o EXCEPT !.X = ToArr(l.X_full), !.K = ToArr(l.K_full),
              !.gamma = ToArr(l.gamma_full),
              !.coefs = error_coef(ToArr(l.X_full)),
              !.attrs = @ \cup {"X", "K", "gamma", "coefs"}]

run_tug_end(o, l) ==
    [o EXCEPT !.X = ToArr(l.X_full), !.K = ToArr(l.K_full),
              !.gamma = ToArr(l.gamma_full),
              !.abs_lambda = ToArr(l.abs_lambda_full),
              !.coefs = error_coef(ToArr(l.X_full)),
              !.attrs = @ \cup {"X", "K", "gamma", "abs_lambda", "coefs"}]

MulticalFinish ==
    /\ pc = "run_multical"
    /\ loc.inx = NF
    /\ self' = run_multical_end(self, loc)
    /\ pc' = "returned"
    /\ loc' = NoLoc
    /\ hist' = <<>>
    /\ nXf' = 0
    /\ UNCHANGED <<calls, ret, runs>>

TugFinish ==
    /\ pc = "run_tug"
    /\ loc.inx = NF
    /\ self' = run_tug_end(self, loc)
    /\ pc' = "returned"
    /\ loc' = NoLoc
    /\ hist' = <<>>
    /\ nXf' = 0
    /\ UNCHANGED <<calls, ret, runs>>

\* a variant of shift_plane that also turns gamma around
shift_plane_gamma(o, d) ==
    LET n == Min(Min(ALen(o.X), ALen(o.K)), ALen(o.gamma))
        r == Eager([i \in 0..(n - 1) |-> shift_plane_at(o.X[i], o.K[i], o.gamma[i], d)])
    IN  [o EXCEPT !.X = [i \in 0..(n - 1) |-> r[i].X],
                  !.K = [i \in 0..(n - 1) |-> r[i].K],
                  !.gamma = [i \in DOMAIN o.gamma |-> CNeg(o.gamma[i])]]

\* shift_plane(d): the object after the call (zip stops at the shortest array)
shift_plane(o, d) ==
    LET n == Min(Min(ALen(o.X), ALen(o.K)), ALen(o.gamma))
        r == Eager([i \in 0..(n - 1) |-> shift_plane_at(o.X[i], o.K[i], o.gamma[i], d)])
    IN  [o EXCEPT !.X = [i \in 0..(n - 1) |-> r[i].X],
                  !.K = [i \in 0..(n - 1) |-> r[i].K]]

\* Z*np.ones(N): a scalar is repeated, an array must have length N (or 1)
CanBroadcast(z, N) == z.kind = "array" => ALen(z.v) \in {1, N}
Broadcast(z, N) ==
    [i \in 0..(N - 1) |-> IF z.kind = "scalar" THEN z.v
                          ELSE IF ALen(z.v) = 1 THEN z.v[0] ELSE z.v[i]]

\* renorm_impedance(Z_new, Z0): the object after the call
renorm_impedance(o, Z_new, Z0) ==
    LET N == ALen(o.K)
        G == [i \in 0..(N - 1) |->
                ReflCoef(Broadcast(Z_new, N)[i], Broadcast(Z0, N)[i])]
        n == Min(ALen(o.X), N)
        r == Eager([i \in 0..(n - 1) |-> renorm_impedance_at(o.X[i], o.K[i], G[i])])
    IN  [o EXCEPT !.X = [i \in 0..(n - 1) |-> r[i].X],
                  !.K = [i \in 0..(n - 1) |-> r[i].K]]

\* the transforms since the latest run, newest first, at most two
Remember(h, op, arg, o) ==
    SubSeq(<<[op |-> op, arg |-> arg, X |-> o.X, K |-> o.K, gamma |-> o.gamma]>> \o h,
           1, Min(2, Len(h) + 1))

ShiftPlane ==
    /\ pc = "idle"
    /\ \E d \in Dists :
         IF Has(self, "X")
         THEN /\ nXf < MaxTransforms
              /\ self' = shift_plane(self, d)
              /\ ret' = Ret("shift_plane", d, <<>>, NoError)
              /\ hist' = Remember(hist, "shift_plane", d, self)
              /\ nXf' = nXf + 1
         ELSE /\ ret' = Ret("shift_plane", d, <<>>, Raised("AttributeError"))
              /\ UNCHANGED <<self, hist, nXf>>
    /\ pc' = "returned"
    /\ UNCHANGED <<loc, calls, runs>>

RenormImpedance ==
    /\ pc = "idle"
    /\ \E z \in ZArgs :
         IF ~Has(self, "K")
         THEN /\ ret' = Ret("renorm_impedance", z, <<>>, Raised("AttributeError"))
              /\ UNCHANGED <<self, hist, nXf>>
         ELSE IF ~(CanBroadcast(z.Z_new, ALen(self.K)) /\ CanBroadcast(z.Z0, ALen(self.K)))
         THEN /\ ret' = Ret("renorm_impedance", z, <<>>, Raised("ValueError"))
              /\ UNCHANGED <<self, hist, nXf>>
         ELSE /\ nXf < MaxTransforms
              /\ self' = renorm_impedance(self, z.Z_new, z.Z0)
              /\ ret' = Ret("renorm_impedance", z, <<>>, NoError)
              /\ hist' = Remember(hist, "renorm_impedance", z, self)
              /\ nXf' = nXf + 1
    /\ pc' = "returned"
    /\ UNCHANGED <<loc, calls, runs>>

\* the 1-port taken from the 2-port result, or the 2-port result itself
select_port(S_cal, nports, left) ==
    IF nports < 2
    THEN [nports |-> 1,
          s |-> [i \in DOMAIN S_cal |->
                   Mat1(IF left THEN S_cal[i][0][0] ELSE S_cal[i][1][1])]]
    ELSE [nports |-> 2, s |-> S_cal]

\* the loop of apply_cal over zip(self.X, self.K, NW.s) and what follows it
apply_cal_loop(o, s, nports, left) ==
    IF \E i \in 0..(Min(Min(ALen(o.X), ALen(o.K)), ALen(s)) - 1) : ~MatFinite(o.X[i])
    THEN [out |-> <<>>, err |-> Raised("LinAlgError")]
    ELSE [out |-> select_port(
                      Eager([i \in 0..(Min(Min(ALen(o.X), ALen(o.K)), ALen(s)) - 1) |->
                               apply_cal_at(o.X[i], o.K[i], s[i])]),
                      nports, left),
          err |-> NoError]

to_two_port(NW) == IF NPorts(NW) < 2 THEN two_port_reflect(NW) ELSE NW
switch_corrected(o, NW) ==
    IF o.switch_term # NoSwitch
    THEN correct_sw(NW, o.switch_term[1], o.switch_term[2]) ELSE NW

\* apply_cal(NW, left): the returned network, or the exception
apply_cal(o, NW, left) ==
    IF ~Has(o, "X") THEN [out |-> <<>>, err |-> Raised("AttributeError")]
    ELSE apply_cal_loop(o, switch_corrected(o, to_two_port(NW)).s, NPorts(NW), left)

RetOf(op, arg, r) == Ret(op, arg, r.out, r.err)

ApplyCal ==
    /\ pc = "idle"
    /\ \E a \in CalArgs : ret' = RetOf("apply_cal", a, apply_cal(self, a.NW, a.left))
    /\ pc' = "returned"
    /\ UNCHANGED <<self, loc, calls, hist, nXf, runs>>

ErrorCoef ==
    /\ pc = "idle"
    /\ IF Has(self, "X")
       THEN /\ self' = [self EXCEPT !.coefs = error_coef(self.X),
                                    !.attrs = @ \cup {"coefs"}]
            /\ ret' = Ret("error_coef", <<>>, <<>>, NoError)
       ELSE /\ ret' = Ret("error_coef", <<>>, <<>>, Raised("AttributeError"))
            /\ UNCHANGED self
    /\ pc' = "returned"
    /\ UNCHANGED <<loc, calls, hist, nXf, runs>>

Next ==
    \/ Construct
    \/ Return
    \/ RunMulticalStart
    \/ RunTugStart
    \/ MulticalStep
    \/ TugStep
    \/ SolverRaises
    \/ MulticalFinish
    \/ TugFinish
    \/ ShiftPlane
    \/ RenormImpedance
    \/ ApplyCal
    \/ ErrorCoef

Spec == Init /\ [][Next]_vars

\* ------------------------------------------------------------------ claims

\* C1: a session constructed with len(line_lengths) # len(lines) ends its
\* construction with a ContractViolation, and no Solver invocation is ever
\* made with lists of different lengths.
C1_LengthsChecked ==
    /\ (ret.op = "__init__" /\ Len(ret.arg.line_lengths) # Len(ret.arg.lines))
           => ret.err.type = "ContractViolation"
    /\ \A c \in 1..Len(calls) : calls[c].nlines = calls[c].nlengths

\* C2, as stated: after a completed run and any transforms, at every frequency
\* X[3,3] is 1, and after a transform K_new * X_new is the un-normalized product
\* KX' the transform computed from the state it started from.
C2_Normalized ==
    Has(self, "X") =>
        \A i \in DOMAIN self.X :
            /\ self.X[i][3][3] = One
            /\ (hist # <<>> /\ hist[1].op = "shift_plane") =>
                   MatScale(self.K[i], self.X[i]) =
                       shift_plane_KX(hist[1].X[i], hist[1].K[i], self.gamma[i],
                                      hist[1].arg)
            /\ (hist # <<>> /\ hist[1].op = "renorm_impedance") =>
                   MatScale(self.K[i], self.X[i]) =
                       renorm_impedance_KX(hist[1].X[i], hist[1].K[i],
                           CDiv(CSub(Broadcast(hist[1].arg.Z_new, NF)[i],
                                     Broadcast(hist[1].arg.Z0, NF)[i]),
                                CAdd(Broadcast(hist[1].arg.Z_new, NF)[i],
                                     Broadcast(hist[1].arg.Z0, NF)[i])))

\* C2, where the division is defined: right after a completed run X[3,3] is 1
\* at every frequency; after a transform, at every frequency where the trailing
\* element KX'[3,3] of the un-normalized product is finite and not 0, X[3,3] is 1
\* and K_new * X_new is KX'.
C2_NormalizedPivot ==
    Has(self, "X") =>
        \A i \in DOMAIN self.X :
            IF hist = <<>> THEN self.X[i][3][3] = One
            ELSE LET KX == IF hist[1].op = "shift_plane"
                           THEN shift_plane_KX(hist[1].X[i], hist[1].K[i],
                                               self.gamma[i], hist[1].arg)
                           ELSE renorm_impedance_KX(hist[1].X[i], hist[1].K[i],
                                    CDiv(CSub(Broadcast(hist[1].arg.Z_new, NF)[i],
                                              Broadcast(hist[1].arg.Z0, NF)[i]),
                                         CAdd(Broadcast(hist[1].arg.Z_new, NF)[i],
                                              Broadcast(hist[1].arg.Z0, NF)[i])))
                 IN  (~IsNaN(KX[3][3]) /\ KX[3][3] # Zero) =>
                         /\ self.X[i][3][3] = One
                         /\ self.K[i] = KX[3][3]
                         /\ MatScale(self.K[i], self.X[i]) = KX

\* a renormalization to another impedance that followed a plane shift and
\* changed both X and K
C2_Reached ==
    /\ Len(hist) = 2
    /\ hist[1].op = "renorm_impedance"
    /\ hist[2].op = "shift_plane"
    /\ hist[1].arg.Z_new # hist[1].arg.Z0
    /\ self.X[0] # hist[1].X[0]
    /\ self.K[0] # hist[1].K[0]
    /\ self.K[0] # One
    /\ \A i \in DOMAIN self.X : MatFinite(self.X[i])

C4_Identity ==
    (/\ pc = "returned"
     /\ ret.op = "apply_cal"
     /\ ret.arg.NW.nports \in {1, 2}
     /\ Has(self, "X")
     /\ \A i \in DOMAIN self.X : self.X[i] = Identity4 /\ self.K[i] = One)
        => /\ ret.err = NoError
           /\ ret.out.nports = ret.arg.NW.nports
           /\ ret.out.s =
                 IF ret.arg.NW.nports = 2 /\ self.switch_term # NoSwitch
                 THEN correct_sw(ret.arg.NW, self.switch_term[1], self.switch_term[2]).s
                 ELSE ret.arg.NW.s

C6_PortCount ==
    (/\ pc = "returned"
     /\ ret.op = "apply_cal"
     /\ Has(self, "X")
     /\ ret.arg.NW.nports \notin {1, 2})
        => /\ ret.err.type = "PortCountError"
           /\ ret.out = <<>>

\* C7: a run the Solver failed in at index i ends with an error that names i,
\* and a session that holds X, K and gamma holds them at full length.
C7_FailureIndex ==
    /\ (pc = "returned" /\ ret.err.type = "NumericalFailure") => ret.err.index = ret.at
    /\ Has(self, "X") =>
           ALen(self.X) = NF /\ ALen(self.K) = NF /\ ALen(self.gamma) = NF

\* C8: between calls, after a completed run, the coefficient mapping is the
\* extraction formulas applied to the X the session holds.
C8_CoefsCurrent ==
    (pc \in {"idle", "returned"} /\ Has(self, "X")) =>
        \A i \in DOMAIN self.X :
            /\ self.coefs["ERF"][i] =
                   CSub(self.X[i][2][2], CMul(self.X[i][2][3], self.X[i][3][2]))
            /\ self.coefs["EDF"][i] = self.X[i][2][3]
            /\ self.coefs["ESF"][i] = CNeg(self.X[i][3][2])
            /\ self.coefs["ERR"][i] =
                   CSub(self.X[i][1][1], CMul(self.X[i][3][1], self.X[i][1][3]))
            /\ self.coefs["EDR"][i] = CNeg(self.X[i][1][3])
            /\ self.coefs["ESR"][i] = self.X[i][3][1]

\* C9: the Solver invocations of a run are at indices 0, 1, ... in this order,
\* one per index; run_multical passes at index i+1 the guess
\* Re(gamma_i) + j*Im(gamma_i)*f[i+1]/f[i], first the guess made from ereff_est
\* and f[0], and extrapolates nothing after the last index; run_tug passes at
\* index i+1 the permittivity estimate returned at index i, first ereff_est.
C9_WarmStart ==
    /\ Len(calls) <= NF
    /\ \A c \in 1..Len(calls) : calls[c].inx = c - 1
    /\ (pc = "returned" /\ ret.op \in {"run_multical", "run_tug"} /\ ret.err = NoError)
           => Len(calls) = NF
    /\ pc \in {"run_multical", "run_tug"} => Len(calls) = loc.inx
    /\ (ret.op = "run_multical" /\ calls # <<>>) =>
           /\ calls[1].guess = InitialGamma(self.ereff_est, f[0])
           /\ \A c \in 1..(Len(calls) - 1) :
                  calls[c + 1].guess =
                      CAdd(Cx(calls[c].result.gamma[1], 0, calls[c].result.gamma[3]),
                           CMul(Cx(0, calls[c].result.gamma[2], calls[c].result.gamma[3]),
                                R(f[c], f[c - 1])))
           /\ (pc = "run_multical" /\ loc.inx = NF) => loc.guess = calls[NF].guess
    /\ (ret.op = "run_tug" /\ calls # <<>>) =>
           /\ calls[1].guess = self.ereff_est
           /\ \A c \in 1..(Len(calls) - 1) : calls[c + 1].guess = calls[c].result.ereff

\* a completed run_multical whose first gamma had a real part, the second guess
\* differing from it
C9_Reached ==
    /\ pc = "returned"
    /\ ret.op = "run_multical"
    /\ ret.err = NoError
    /\ Len(calls) = NF
    /\ calls[1].result.gamma[1] # 0
    /\ calls[2].guess # calls[1].result.gamma
    /\ calls[2].guess # calls[1].guess

\* C10: apply_cal and error_coef leave X, K and gamma as they were; shift_plane
\* and renorm_impedance leave gamma, lines, reflect and switch_term as they were
\* and keep X and K at the length of the sweep; X, K and gamma are built only by
\* the end of a run.
C10_Frame ==
    [][/\ (pc' = "returned" /\ ret'.op \in {"apply_cal", "error_coef"}) =>
              /\ self'.X = self.X
              /\ self'.K = self.K
              /\ self'.gamma = self.gamma
       /\ (pc' = "returned" /\ ret'.op \in {"shift_plane", "renorm_impedance"}) =>
              /\ self'.gamma = self.gamma
              /\ self'.lines = self.lines
              /\ self'.reflect = self.reflect
              /\ self'.switch_term = self.switch_term
              /\ ret'.err = NoError => ALen(self'.X) = NF /\ ALen(self'.K) = NF
       /\ (\/ self'.gamma # self.gamma
           \/ ALen(self'.X) # ALen(self.X)
           \/ ALen(self'.K) # ALen(self.K)
           \/ (self'.attrs \ self.attrs) \cap {"X", "K", "gamma"} # {}) =>
              /\ pc \in {"run_multical", "run_tug"}
              /\ pc' = "returned"
      ]_vars

\* a plane shift of a session with switch terms has returned, having changed X
C10_Reached ==
    /\ pc = "returned"
    /\ ret.op = "shift_plane"
    /\ ret.err = NoError
    /\ self.switch_term # NoSwitch
    /\ hist[1].X # self.X
    /\ ALen(self.gamma) = NF

====
